---------------------------- MODULE Spec2Model ----------------------------
(***************************************************************************)
(* Model of src/app.py: the /quiz/next endpoint of the quiz generator, its *)
(* three globals (question_cache, used_questions, current_topic), the      *)
(* request handler get_next_questions, the background task                 *)
(* preload_questions and the completion post-processing of                 *)
(* generate_quiz_questions.                                                *)
(*                                                                         *)
(* Threads are interleaved at the accesses to the three globals: one step  *)
(* is one access to a global together with the statements after it that    *)
(* touch only locals, the file system or the generation service.           *)
(***************************************************************************)
EXTENDS Integers, Sequences, FiniteSets, TLC

(***************************************************************************)
(* Bounds of the model.                                                    *)
(***************************************************************************)
\* Requests that arrive in one behaviour.
MaxRequests == 2
\* Times the scheduler leaves a thread that could still run.
MaxSwitches == 1
\* Outcomes of random.shuffle that are explored for one question.
MaxShuffle == 1

(***************************************************************************)
(* Program constants.                                                      *)
(***************************************************************************)
\* len(question_cache) < 5
CacheLow == 5
\* question_cache[:5]
ServeCount == 5
\* current_index % 5 == 2
PrefetchModulus == 5
PrefetchResidue == 2
\* len(q["options"]) != 4
OptionCount == 4

(***************************************************************************)
(* Query strings.  request.args is a function from the parameter names     *)
(* that are present to their (already once decoded) text.                  *)
(***************************************************************************)
ArgsGet(args, name, default) ==
    IF name \in DOMAIN args THEN args[name] ELSE default

\* urllib.parse.unquote on the texts the model sends.
unquote(s) == IF s = "%20" THEN " " ELSE s

\* str.strip on the texts the model sends.
strip(s) ==
    CASE s = " "   -> ""
      [] s = " B"  -> "B"
      [] OTHER     -> s

\* int(): the literals it accepts, with their values; any other text raises
\* ValueError.
IntLiterals == ("0" :> 0) @@ ("2" :> 2) @@ ("7" :> 7) @@ ("-3" :> (0 - 3))

IsIntLiteral(s) == s \in DOMAIN IntLiterals

ValueErrorMessage(s) == "invalid literal for int() with base 10: '" \o s \o "'"

\* A query string without parameters.
NoArgs == [name \in {} |-> ""]

\* The query strings sent to /quiz/next.
RequestArgs ==
    { [topic |-> "A"],
      [topic |-> " B", current_index |-> "7",
       standard |-> "10", subject |-> "sci", chapter |-> "2"],
      [current_index |-> "abc", standard |-> "10"],
      NoArgs }

\* Query strings over more texts: every choice of the parameters that are
\* present, for each of these sets of parameters.
ParameterTexts ==
    [topic : {"", "%20", "A", " B", "C"},
     current_index : {"0", "7", "-3", "abc"},
     standard : {"10"}, subject : {"sci"}, chapter : {"1", "2", "3"}]

ParametersPresent ==
    { {"topic", "current_index", "standard", "subject", "chapter"},
      {"topic", "current_index"}, {"topic"}, {"current_index", "standard"}, {} }

QueryStrings ==
    { [name \in present |-> texts[name]] :
        texts \in ParameterTexts, present \in ParametersPresent }

(***************************************************************************)
(* The file system: the files that exist, with what reading them returns.  *)
(***************************************************************************)
\* read_chapter_content returns None when the read raises.
Unreadable == "<read raises>"

FileSystem ==
    ("D:\\bck\\schoolbooks\\10\\sci\\B.txt" :> "chapter text about B") @@
    ("D:\\bck\\schoolbooks\\10\\sci\\C.txt" :> "") @@
    ("D:/bck/schoolbooks/10th/sci/Chapter 1.txt" :> "chapter one text") @@
    ("D:/bck/schoolbooks/10th/sci/Chapter 3.txt" :> Unreadable)

path_exists(p) == p \in DOMAIN FileSystem

\* The text read, or "" for None; in both cases the caller tests falsy.
read_chapter_content(p) ==
    IF path_exists(p) /\ FileSystem[p] # Unreadable THEN FileSystem[p] ELSE ""

PreloadPath(standard, subject, topic) ==
    "D:\\bck\\schoolbooks\\" \o standard \o "\\" \o subject \o "\\" \o topic \o ".txt"

InlinePath(standard, subject, chapter) ==
    "D:/bck/schoolbooks/" \o standard \o "th/" \o subject \o "/Chapter " \o chapter \o ".txt"

(***************************************************************************)
(* Completions of the generation service.  A completion is a service       *)
(* error, text that is not JSON, a JSON object without "questions", or a   *)
(* JSON object whose "questions" is an array of elements.  An element is a *)
(* JSON object: a function from the keys it has to their values; the value *)
(* of "options" is an array of texts or null.                              *)
(***************************************************************************)
JsonArray(items) == [json |-> "array", items |-> items]

JsonNull == [json |-> "null", items |-> <<>>]

\* A well-formed element whose answer is its first option.
Element(text) ==
    [question |-> text, options |-> JsonArray(<<"w", "x", "y", "z">>),
     answer |-> "w", explanation |-> "because"]

\* Well-formed by the code's tests, with an option text given twice.
RepeatedOption(text) ==
    [question |-> text, options |-> JsonArray(<<"w", "x", "x", "z">>),
     answer |-> "x", explanation |-> "because"]

NoExplanation(text) ==
    [question |-> text, options |-> JsonArray(<<"w", "x", "y", "z">>),
     answer |-> "w"]

ThreeOptions(text) ==
    [question |-> text, options |-> JsonArray(<<"w", "x", "y">>),
     answer |-> "w", explanation |-> "because"]

AnswerNotAnOption(text) ==
    [question |-> text, options |-> JsonArray(<<"w", "x", "y", "z">>),
     answer |-> "W", explanation |-> "because"]

\* len(None) raises TypeError.
NullOptions(text) ==
    [question |-> text, options |-> JsonNull,
     answer |-> "w", explanation |-> "because"]

ServiceError == [kind |-> "service_error", questions |-> <<>>]

MalformedJson == [kind |-> "malformed_json", questions |-> <<>>]

NoQuestionsKey == [kind |-> "no_questions_key", questions |-> <<>>]

Questions(elements) == [kind |-> "questions", questions |-> elements]

\* The completions the service may return to a call, when requests and
\* tasks run concurrently.
Completions ==
    { ServiceError, MalformedJson, NoQuestionsKey,
      Questions(<<Element("q1"), Element("q2"), Element("q3"),
                  Element("q4"), Element("q5")>>),
      Questions(<<Element("q1"), NoExplanation("q6"), RepeatedOption("q6"),
                  AnswerNotAnOption("q7")>>),
      Questions(<<ThreeOptions("q7"), Element("q7"), NullOptions("q8")>>) }

\* A completion with more elements than the 5 the prompt of line 72 asks
\* for, all well-formed.
LongCompletions ==
    { Questions(<<Element("q1"), Element("q2"), Element("q3"),
                  Element("q4"), Element("q5"), Element("q6")>>) }

(***************************************************************************)
(* generate_quiz_questions: the tests made on one element of the array.    *)
(***************************************************************************)
RequiredKeys == {"question", "options", "answer", "explanation"}

Range(s) == { s[k] : k \in 1..Len(s) }

InSeq(x, s) == \E k \in 1..Len(s) : s[k] = x

\* Lines 113-117 for element q, which read no global: "skip" (continue),
\* "raise" (len of what has no len: the batch fails) or "read" (go on to
\* line 119).
LocalOutcome(q) ==
    IF ~(RequiredKeys \subseteq DOMAIN q) THEN "skip"
    ELSE IF q.options.json # "array" THEN "raise"
    ELSE IF Len(q.options.items) # OptionCount THEN "skip"
    ELSE "read"

\* A variant of lines 113-131 without the test of line 130, which C6 tells
\* apart.
ElementOutcomeAnyAnswer(q, used) ==
    IF LocalOutcome(q) # "read" THEN LocalOutcome(q)
    ELSE IF q.question \in used THEN "skip"
    ELSE "accept"

\* Lines 113-131 for element q with the used-set as read at line 119:
\* "skip" (continue), "raise" (an exception, the batch fails) or "accept".
ElementOutcome(q, used) ==
    IF LocalOutcome(q) # "read" THEN LocalOutcome(q)
    ELSE IF q.question \in used THEN "skip"
    ELSE IF ~InSeq(q.answer, q.options.items) THEN "skip"
    ELSE "accept"

\* The orders random.shuffle can leave 4 items in.
Permutations4 ==
    { p \in [1..OptionCount -> 1..OptionCount] :
        \A i, j \in 1..OptionCount : i # j => p[i] # p[j] }

\* The rank of p in the lexicographic order of the permutations, from 0.
PermutationRank(p) ==
    LET Less(i) == Cardinality({ j \in (i+1)..OptionCount : p[j] < p[i] })
    IN  Less(1) * 6 + Less(2) * 2 + Less(3)

\* The outcomes of a shuffle that are explored: the n last in that order.
ShuffleOutcomes(n) ==
    { p \in Permutations4 : PermutationRank(p) >= 24 - n }

Shuffles == ShuffleOutcomes(MaxShuffle)

\* A variant of line 133 that draws with replacement (random.choices), which
\* C7 tells apart.
shuffleWithReplacement(options, p) ==
    [k \in 1..Len(options) |-> options[IF p[k] = 1 THEN 2 ELSE p[k]]]

\* random.shuffle(question.options) with outcome p.
shuffle(options, p) == [k \in 1..Len(options) |-> options[p[k]]]

\* A variant that keeps the answer by its position among the options, which
\* C16 tells apart.
QuizQuestionByPosition(q, p) ==
    LET shuffled == shuffle(q.options.items, p)
        position == CHOOSE k \in 1..Len(shuffled) : q.options.items[k] = q.answer
    IN  [question |-> q.question, options |-> shuffled,
         answer |-> shuffled[position], explanation |-> q.explanation]

\* The QuizQuestion of lines 123-133 for an accepted element.
QuizQuestion(q, p) ==
    [question |-> q.question, options |-> shuffle(q.options.items, p),
     answer |-> q.answer, explanation |-> q.explanation]

(***************************************************************************)
(* State.                                                                  *)
(***************************************************************************)
VARIABLES
    question_cache,   \* the global list of QuizQuestion
    used_questions,   \* the global set of question texts
    current_topic,    \* the global topic marker
    thread,           \* the locals of every handler and background task
    nreq,             \* requests received so far
    running,          \* the thread that made the last step, 0 when it ended
    switches,         \* times a thread that could still run was left
    delivered,        \* history: the question texts sent in 200 responses
                      \* since the last statement of a topic switch
    service,          \* the completions the generation service may return
    run               \* a run of one function on its own, outside the server

vars ==
    <<question_cache, used_questions, current_topic, thread, nreq,
      running, switches, delivered, service, run>>

\* Handler of request i is thread i; the task it spawns is thread Task(i).
Handlers == 1..MaxRequests

Task(i) == MaxRequests + i

Tasks == { Task(i) : i \in Handlers }

Threads == Handlers \cup Tasks

\* A thread that has not started.  Beside the locals of the code, "call" is
\* the generation call made ("content", "topic", "topic None" or "none"),
\* "result" what generate_quiz_questions returned ("list", "None", "" when
\* it has not returned), "changed_cache" whether a step of the thread
\* changed question_cache, and "topic_switched" whether a statement of a
\* topic switch ran while the handler was at work.
Idle ==
    [pc |-> "idle", args |-> NoArgs, topic |-> "",
     standard |-> "", subject |-> "", chapter |-> "",
     call |-> "none", result |-> "", todo |-> <<>>, processed |-> <<>>,
     status |-> 0, error |-> "", questions |-> <<>>, should_fetch |-> FALSE,
     changed_cache |-> FALSE, topic_switched |-> FALSE]

\* No function is run on its own.
NoRun == [fn |-> "none"]

\* The server after start-up: lines 28-30, no request received.
ServerInit ==
    /\ question_cache = <<>>
    /\ used_questions = {}
    /\ current_topic = ""
    /\ thread = [t \in Threads |-> Idle]
    /\ nreq = 0
    /\ running = 0
    /\ switches = 0
    /\ delivered = {}

Init == ServerInit /\ service = Completions /\ run = NoRun

\* Thread t makes the step.  Leaving a thread that could still run counts
\* against MaxSwitches; a thread that has ended, or that blocks at the end
\* of its step (Thread.start() waits until the new thread runs), is left
\* for free.
Run(t, blocks) ==
    LET cost == IF running # 0 /\ running # t THEN 1 ELSE 0
    IN  /\ switches + cost <= MaxSwitches
        /\ switches' = switches + cost
        /\ running' = IF thread'[t].pc = "done" \/ blocks THEN 0 ELSE t

Texts(questions) == { questions[k].question : k \in 1..Len(questions) }

\* The history of deliveries after thread t's step: a handler that answers
\* 200 with no topic switch since it started adds its texts.
Deliver(t) ==
    delivered' =
        IF /\ t \in Handlers
           /\ thread[t].pc # "done" /\ thread'[t].pc = "done"
           /\ thread'[t].status = 200 /\ ~thread'[t].topic_switched
        THEN delivered \cup Texts(thread'[t].questions)
        ELSE delivered

(***************************************************************************)
(* get_next_questions, lines 180-197: parse, validate, maybe spawn.        *)
(***************************************************************************)
\* Line 180.
TopicOf(args) == unquote(ArgsGet(args, "topic", ""))

\* Line 181, before int().
IndexTextOf(args) == ArgsGet(args, "current_index", "0")

\* A variant of line 196 with "and" for "or", which C4 tells apart.
ShouldPrefetchBoth(current_index, cached) ==
    current_index % PrefetchModulus = PrefetchResidue /\ cached < CacheLow

\* Line 196.
ShouldPrefetch(current_index, cached) ==
    current_index % PrefetchModulus = PrefetchResidue \/ cached < CacheLow

\* A variant of line 199 reading "if not question_cache", which C5 tells
\* apart.
NeedsInlineWhenEmpty(cached) == cached = 0

\* Line 199.
NeedsInline(cached) == cached < CacheLow

\* jsonify({"error": message}), status: the handler is done.
ErrorResponse(l, status, message) ==
    [l EXCEPT !.pc = "done", !.status = status, !.error = message,
              !.todo = <<>>, !.processed = <<>>]

\* jsonify({"questions": ..., "should_fetch": True}) with status 200.
QuestionsResponse(l, questions) ==
    [l EXCEPT !.pc = "done", !.status = 200, !.questions = questions,
              !.should_fetch = TRUE, !.todo = <<>>, !.processed = <<>>]

\* Lines 180-195 for the query string args: the response when the request
\* is refused, the handler's locals when it goes on.
Parse(args) ==
    LET arrived == [Idle EXCEPT !.args = args]
    IN  IF ~IsIntLiteral(IndexTextOf(args))
        THEN ErrorResponse(arrived, 400, ValueErrorMessage(IndexTextOf(args)))
        ELSE IF TopicOf(args) = ""
        THEN ErrorResponse(arrived, 400, "Missing topic parameter")
        ELSE [arrived EXCEPT !.pc = "check",
                             !.topic = strip(TopicOf(args)),
                             !.standard = ArgsGet(args, "standard", ""),
                             !.subject = ArgsGet(args, "subject", ""),
                             !.chapter = ArgsGet(args, "chapter", "")]

\* Thread(target=preload_questions, args=(standard, subject, chapter, topic)).
Spawned(l) ==
    [Idle EXCEPT !.pc = "start", !.topic = l.topic, !.standard = l.standard,
                 !.subject = l.subject, !.chapter = l.chapter]

Receive(args) ==
    /\ nreq < MaxRequests
    /\ LET i == nreq + 1
           l == Parse(args)
       IN  /\ nreq' = i
           /\ thread' = [thread EXCEPT
                  ![i] = l,
                  ![Task(i)] =
                      IF /\ l.pc = "check"
                         /\ ShouldPrefetch(IntLiterals[IndexTextOf(args)],
                                           Len(question_cache))
                      THEN Spawned(l) ELSE @]
           /\ Run(i, thread'[Task(i)].pc = "start")
           /\ Deliver(i)
    /\ UNCHANGED <<question_cache, used_questions, current_topic>>
    /\ UNCHANGED <<service, run>>

(***************************************************************************)
(* generate_quiz_questions, run by a handler (inline) or by a task.        *)
(***************************************************************************)
\* A variant in which the handler answers a failed generation with 200 and
\* no questions, which C8 tells apart.
GenerationFailedAnswered(l, t) ==
    IF t \in Handlers
    THEN [QuestionsResponse(l, <<>>) EXCEPT !.result = "None"]
    ELSE [l EXCEPT !.pc = "done", !.result = "None",
                   !.todo = <<>>, !.processed = <<>>]

\* A variant in which the task caches what a failed generation had
\* collected, which C9 tells apart.
GenerationFailedExtends(l, t) ==
    IF t \in Handlers
    THEN [ErrorResponse(l, 500, "Failed to generate questions")
              EXCEPT !.result = "None"]
    ELSE IF l.processed # <<>>
         THEN [l EXCEPT !.pc = "extend", !.result = "None", !.todo = <<>>]
         ELSE [l EXCEPT !.pc = "done", !.result = "None", !.todo = <<>>]

\* Line 146, return None, and what the caller does with it: the handler
\* answers 500 (lines 214-215), the task ends (lines 165, 174).
GenerationFailed(l, t) ==
    IF t \in Handlers
    THEN [ErrorResponse(l, 500, "Failed to generate questions")
              EXCEPT !.result = "None"]
    ELSE [l EXCEPT !.pc = "done", !.result = "None",
                   !.todo = <<>>, !.processed = <<>>]

\* Line 142, return processed_questions, and what the caller does with it:
\* the handler answers 200 (lines 220-223), the task goes on to extend the
\* cache when the list is not empty (lines 165, 174).
GenerationReturned(l, t) ==
    IF t \in Handlers
    THEN [QuestionsResponse(l, l.processed) EXCEPT !.result = "list"]
    ELSE IF l.processed # <<>>
         THEN [l EXCEPT !.pc = "extend", !.result = "list", !.todo = <<>>]
         ELSE [l EXCEPT !.pc = "done", !.result = "list", !.todo = <<>>]

\* The for loop of line 112 from the head of l.todo up to the next read of
\* used_questions: the elements that lines 113-117 skip are passed, an
\* element that raises ends the batch, the end of the array returns.
RECURSIVE Iterate(_, _)
Iterate(l, t) ==
    IF l.todo = <<>> THEN GenerationReturned(l, t)
    ELSE CASE LocalOutcome(Head(l.todo)) = "skip" ->
                  Iterate([l EXCEPT !.todo = Tail(@)], t)
           [] LocalOutcome(Head(l.todo)) = "raise" -> GenerationFailed(l, t)
           [] OTHER -> [l EXCEPT !.pc = "loop"]

\* Lines 97-111: the call returns completion c; json.loads and the lookup
\* of "questions" raise on what is not such an object.
CompletionReceived(l, t, c) ==
    IF c.kind # "questions" THEN GenerationFailed(l, t)
    ELSE Iterate([l EXCEPT !.todo = c.questions], t)

\* A variant that adds the question text to used_questions before the test
\* of line 130, which C17 tells apart.
ElementCheckMarksFirst(t) ==
    /\ thread[t].pc = "loop"
    /\ LET l == thread[t]
           outcome == ElementOutcome(Head(l.todo), used_questions)
       IN  /\ thread' = [thread EXCEPT ![t] =
                  IF outcome = "accept" THEN [l EXCEPT !.pc = "accept"]
                  ELSE Iterate([l EXCEPT !.todo = Tail(@)], t)]
           /\ used_questions' = used_questions \cup {Head(l.todo).question}
    /\ Run(t, FALSE)
    /\ Deliver(t)
    /\ UNCHANGED <<question_cache, current_topic, nreq>>
    /\ UNCHANGED <<service, run>>

\* Lines 119-131 on the element at the head of the array, reading
\* used_questions at line 119.
ElementCheck(t) ==
    /\ thread[t].pc = "loop"
    /\ LET l == thread[t]
           outcome == ElementOutcome(Head(l.todo), used_questions)
       IN  thread' = [thread EXCEPT ![t] =
               IF outcome = "accept" THEN [l EXCEPT !.pc = "accept"]
               ELSE Iterate([l EXCEPT !.todo = Tail(@)], t)]
    /\ Run(t, FALSE)
    /\ Deliver(t)
    /\ UNCHANGED <<question_cache, used_questions, current_topic, nreq>>
    /\ UNCHANGED <<service, run>>

\* Lines 133-135: shuffle, used_questions.add, processed_questions.append.
ElementAccept(t) ==
    /\ thread[t].pc = "accept"
    /\ \E p \in Shuffles :
         LET l == thread[t]
             question == QuizQuestion(Head(l.todo), p)
         IN  /\ used_questions' = used_questions \cup {question.question}
             /\ thread' = [thread EXCEPT ![t] =
                    Iterate([l EXCEPT !.processed = Append(@, question),
                                      !.todo = Tail(@)], t)]
    /\ Run(t, FALSE)
    /\ Deliver(t)
    /\ UNCHANGED <<question_cache, current_topic, nreq>>
    /\ UNCHANGED <<service, run>>

(***************************************************************************)
(* get_next_questions, lines 199-223.                                      *)
(***************************************************************************)
\* Lines 200-212: which call the inline path makes.  Line 205 passes no
\* topic: when the text read is None or empty, the prompt of line 95 is
\* built about topic None.
InlineCall(l) ==
    IF l.standard # "" /\ l.subject # "" /\ l.chapter # ""
    THEN LET file_path == InlinePath(l.standard, l.subject, l.chapter)
         IN  IF path_exists(file_path)
             THEN IF read_chapter_content(file_path) # ""
                  THEN "content" ELSE "topic None"
             ELSE "topic"
    ELSE "topic"

\* Line 199: the second look at the cache chooses the branch; on the inline
\* branch, lines 200-212 and 97-111: the call and its completion.
Check(t) ==
    /\ t \in Handlers
    /\ thread[t].pc = "check"
    /\ IF NeedsInline(Len(question_cache))
       THEN \E c \in service :
              thread' = [thread EXCEPT ![t] =
                  CompletionReceived(
                      [thread[t] EXCEPT !.call = InlineCall(thread[t])], t, c)]
       ELSE thread' = [thread EXCEPT ![t].pc = "slice"]
    /\ Run(t, FALSE)
    /\ Deliver(t)
    /\ UNCHANGED <<question_cache, used_questions, current_topic, nreq>>
    /\ UNCHANGED <<service, run>>

\* question_cache[:5].
Served(cache) ==
    SubSeq(cache, 1, IF Len(cache) < ServeCount THEN Len(cache) ELSE ServeCount)

\* Line 217: questions = question_cache[:5].
Slice(t) ==
    /\ t \in Handlers
    /\ thread[t].pc = "slice"
    /\ thread' = [thread EXCEPT ![t].pc = "del",
                                ![t].processed = Served(question_cache)]
    /\ Run(t, FALSE)
    /\ Deliver(t)
    /\ UNCHANGED <<question_cache, used_questions, current_topic, nreq>>
    /\ UNCHANGED <<service, run>>

\* What del question_cache[:5] leaves.
DelServed(cache) ==
    IF Len(cache) <= ServeCount THEN <<>>
    ELSE SubSeq(cache, ServeCount + 1, Len(cache))

\* Line 218, del question_cache[:5], and the response of lines 220-223.
Del(t) ==
    /\ t \in Handlers
    /\ thread[t].pc = "del"
    /\ question_cache' = DelServed(question_cache)
    /\ thread' = [thread EXCEPT ![t] =
           QuestionsResponse(thread[t], thread[t].processed)]
    /\ Run(t, FALSE)
    /\ Deliver(t)
    /\ UNCHANGED <<used_questions, current_topic, nreq>>
    /\ UNCHANGED <<service, run>>

(***************************************************************************)
(* preload_questions, run in a thread of its own.                          *)
(***************************************************************************)
\* Lines 156-173: which call the task makes; none when the file exists and
\* the text read is None or empty.
PreloadCall(l) ==
    LET file_path == PreloadPath(l.standard, l.subject, l.topic)
    IN  IF path_exists(file_path)
        THEN IF read_chapter_content(file_path) # ""
             THEN "content" ELSE "none"
        ELSE "topic"

\* Lines 156-175 up to the first read of used_questions: the call, if one
\* is made, returns completion c.
Preload(l, t, c) ==
    LET called == [l EXCEPT !.call = PreloadCall(l)]
    IN  IF called.call = "none" THEN [called EXCEPT !.pc = "done"]
        ELSE CompletionReceived(called, t, c)

\* A statement of the topic switch ran: the handlers that are past line 199
\* have seen one.
TopicSwitched(th) ==
    [u \in Threads |->
        IF u \in Handlers /\ th[u].pc \notin {"idle", "done", "check"}
        THEN [th[u] EXCEPT !.topic_switched = TRUE] ELSE th[u]]

\* Line 151: if topic != current_topic; when it is the same, lines 156-175.
TopicCompare(t) ==
    /\ t \in Tasks
    /\ thread[t].pc = "start"
    /\ IF thread[t].topic # current_topic
       THEN thread' = [thread EXCEPT ![t].pc = "clear_cache"]
       ELSE \E c \in service :
              thread' = [thread EXCEPT ![t] = Preload(thread[t], t, c)]
    /\ Run(t, FALSE)
    /\ Deliver(t)
    /\ UNCHANGED <<question_cache, used_questions, current_topic, nreq>>
    /\ UNCHANGED <<service, run>>

\* Line 152: question_cache.clear().
ClearCache(t) ==
    /\ t \in Tasks
    /\ thread[t].pc = "clear_cache"
    /\ question_cache' = <<>>
    /\ thread' = TopicSwitched([thread EXCEPT
           ![t].pc = "clear_used",
           ![t].changed_cache = @ \/ question_cache # <<>>])
    /\ Run(t, FALSE)
    /\ delivered' = {}
    /\ UNCHANGED <<used_questions, current_topic, nreq>>
    /\ UNCHANGED <<service, run>>

\* Line 153: used_questions.clear().
ClearUsed(t) ==
    /\ t \in Tasks
    /\ thread[t].pc = "clear_used"
    /\ used_questions' = {}
    /\ thread' = TopicSwitched([thread EXCEPT ![t].pc = "set_topic"])
    /\ Run(t, FALSE)
    /\ delivered' = {}
    /\ UNCHANGED <<question_cache, current_topic, nreq>>
    /\ UNCHANGED <<service, run>>

\* Line 154, current_topic = topic, and lines 156-175.
SetTopic(t) ==
    /\ t \in Tasks
    /\ thread[t].pc = "set_topic"
    /\ current_topic' = thread[t].topic
    /\ \E c \in service :
         thread' = TopicSwitched([thread EXCEPT ![t] = Preload(thread[t], t, c)])
    /\ Run(t, FALSE)
    /\ delivered' = {}
    /\ UNCHANGED <<question_cache, used_questions, nreq>>
    /\ UNCHANGED <<service, run>>

\* Lines 169, 175: question_cache.extend(questions).
Extend(t) ==
    /\ t \in Tasks
    /\ thread[t].pc = "extend"
    /\ question_cache' = question_cache \o thread[t].processed
    /\ thread' = [thread EXCEPT
           ![t].pc = "done", ![t].processed = <<>>,
           ![t].changed_cache = TRUE]
    /\ Run(t, FALSE)
    /\ Deliver(t)
    /\ UNCHANGED <<used_questions, current_topic, nreq>>
    /\ UNCHANGED <<service, run>>

(***************************************************************************)
(* The server.                                                             *)
(***************************************************************************)
\* A step of a thread that has started.
Step(t) ==
    \/ Check(t)
    \/ ElementCheck(t)
    \/ ElementAccept(t)
    \/ Slice(t)
    \/ Del(t)
    \/ TopicCompare(t)
    \/ ClearCache(t)
    \/ ClearUsed(t)
    \/ SetTopic(t)
    \/ Extend(t)

\* MaxRequests requests, each with one of the query strings of RequestArgs.
Next ==
    \/ \E args \in RequestArgs : Receive(args)
    \/ \E t \in Threads : Step(t)

Spec == Init /\ [][Next]_vars

\* One request, with any of the query strings of QueryStrings, and a
\* service that may also return the completions of LongCompletions.
FirstInit ==
    ServerInit /\ service = Completions \cup LongCompletions /\ run = NoRun

ReceiveFirst(args) == nreq = 0 /\ Receive(args)

FirstNext ==
    \/ \E args \in QueryStrings : ReceiveFirst(args)
    \/ \E t \in Threads : Step(t)

FirstSpec == FirstInit /\ [][FirstNext]_vars

(***************************************************************************)
(* calculate_accuracy, run on its own.  A text is the sequence of its      *)
(* characters; text_content is a text or None.                             *)
(***************************************************************************)
None == [none |-> TRUE, chars |-> <<>>]

Text(chars) == [none |-> FALSE, chars |-> chars]

\* The values of text_content: None, "", "the cells wall", "Cell Wall".
SourceTexts ==
    { None, Text(<<>>),
      Text(<<"t","h","e"," ","c","e","l","l","s"," ","w","a","l","l">>),
      Text(<<"C","e","l","l"," ","W","a","l","l">>) }

\* The values of q.question: "cell wall", "Is a  Cell big", "walls", and
\* "cell cell cell wall wall".
QuestionTexts ==
    { <<"c","e","l","l"," ","w","a","l","l">>,
      <<"I","s"," ","a"," "," ","C","e","l","l"," ","b","i","g">>,
      <<"w","a","l","l","s">>,
      <<"c","e","l","l"," ","c","e","l","l"," ","c","e","l","l"," ",
        "w","a","l","l"," ","w","a","l","l">> }

\* Questions in one list.
MaxQuestions == 3

QuestionLists ==
    UNION { [1..n -> QuestionTexts] : n \in 0..MaxQuestions }

\* str.lower() on the letters of these texts.
lower(chars) ==
    [k \in 1..Len(chars) |->
        CASE chars[k] = "C" -> "c"
          [] chars[k] = "I" -> "i"
          [] chars[k] = "W" -> "w"
          [] OTHER -> chars[k]]

\* str.split(): the maximal runs of characters that are not whitespace.
RECURSIVE SplitWords(_, _)
SplitWords(chars, word) ==
    LET ended == IF word = <<>> THEN <<>> ELSE <<word>>
    IN  IF chars = <<>> THEN ended
        ELSE IF Head(chars) = " "
        THEN ended \o SplitWords(Tail(chars), <<>>)
        ELSE SplitWords(Tail(chars), Append(word, Head(chars)))

split(chars) == SplitWords(chars, <<>>)

\* word in text: word is a substring of text.
Contains(text, word) ==
    \E k \in 1..(Len(text) - Len(word) + 1) :
        SubSeq(text, k, k + Len(word) - 1) = word

\* Lines 57-60 for one question: the words it adds to relevant_count.
RelevantWords(text, question) ==
    LET question_words == split(lower(question))
    IN  Cardinality({ k \in 1..Len(question_words) :
            /\ Len(question_words[k]) > 3
            /\ Contains(lower(text), question_words[k]) })

\* Lines 54-60: relevant_count after the loop over questions.
RECURSIVE RelevantCount(_, _)
RelevantCount(text, questions) ==
    IF questions = <<>> THEN 0
    ELSE RelevantWords(text, Head(questions))
             + RelevantCount(text, Tail(questions))

\* round(a / b, 0) for a >= 0, b > 0: to the nearest integer, a tie to the
\* even one.
RoundDiv(a, b) ==
    LET q == a \div b
        r == a % b
    IN  IF 2 * r < b THEN q
        ELSE IF 2 * r > b THEN q + 1
        ELSE IF q % 2 = 0 THEN q ELSE q + 1

\* A variant of line 62 without min(..., 100), which C14 tells apart.
AccuracyUncapped(relevant_count, n) == RoundDiv(relevant_count * 5000, n)

\* Lines 62-63 in hundredths: round(min(relevant_count / (n * 2) * 100, 100), 2)
\* times 100.
Accuracy(relevant_count, n) ==
    IF relevant_count * 5000 >= 10000 * n THEN 10000
    ELSE RoundDiv(relevant_count * 5000, n)

\* calculate_accuracy: the value returned, in hundredths, with the
\* relevant_count reached and whether line 64 caught an exception.
\* None.split() raises at line 53, the division by zero at line 62.
calculate_accuracy(text_content, questions) ==
    IF text_content.none
    THEN [raised |-> TRUE, relevant_count |-> 0, result |-> 0]
    ELSE LET relevant_count == RelevantCount(text_content.chars, questions)
         IN  IF Len(questions) = 0
             THEN [raised |-> TRUE, relevant_count |-> relevant_count,
                   result |-> 0]
             ELSE [raised |-> FALSE, relevant_count |-> relevant_count,
                   result |-> Accuracy(relevant_count, Len(questions))]

\* A call of calculate_accuracy with any of these arguments.
AccuracyInit ==
    /\ ServerInit
    /\ service = {}
    /\ \E text_content \in SourceTexts, questions \in QuestionLists :
         run = [fn |-> "calculate_accuracy", text_content |-> text_content,
                questions |-> questions, returned |-> FALSE,
                raised |-> FALSE, relevant_count |-> 0, result |-> 0]

CalculateAccuracy ==
    /\ run.fn = "calculate_accuracy"
    /\ ~run.returned
    /\ LET out == calculate_accuracy(run.text_content, run.questions)
       IN  run' = [run EXCEPT !.returned = TRUE, !.raised = out.raised,
                              !.relevant_count = out.relevant_count,
                              !.result = out.result]
    /\ UNCHANGED <<question_cache, used_questions, current_topic, thread,
                   nreq, running, switches, delivered, service>>

AccuracySpec == AccuracyInit /\ [][CalculateAccuracy]_vars

(***************************************************************************)
(* Lines 123-133 run on their own: an accepted element is made a           *)
(* QuizQuestion and shuffled, with any outcome of random.shuffle.          *)
(***************************************************************************)
\* The elements of the completions that pass the tests of lines 113-131.
AcceptedElements ==
    { q \in UNION { Range(c.questions) :
                       c \in Completions \cup LongCompletions } :
        ElementOutcome(q, {}) = "accept" }

ShuffleInit ==
    /\ ServerInit
    /\ service = {}
    /\ \E q \in AcceptedElements, p \in Permutations4 :
         run = [fn |-> "shuffle", q |-> q, p |-> p, returned |-> FALSE,
                question |-> QuizQuestion(q, <<1, 2, 3, 4>>)]

\* Line 133.
Shuffle ==
    /\ run.fn = "shuffle" /\ ~run.returned
    /\ run' = [run EXCEPT !.returned = TRUE,
                          !.question = QuizQuestion(run.q, run.p)]
    /\ UNCHANGED <<question_cache, used_questions, current_topic, thread,
                   nreq, running, switches, delivered, service>>

ShuffleSpec == ShuffleInit /\ [][Shuffle]_vars

(***************************************************************************)
(* The line-oriented parser of the batch script (pipeline B), which is not *)
(* part of src/app.py: modelled from section 4.4 of the specification.  A  *)
(* line is the sequence of its characters.                                 *)
(***************************************************************************)
StartsWith(line, prefix) ==
    Len(line) >= Len(prefix) /\ SubSeq(line, 1, Len(prefix)) = prefix

\* The text after the first colon, or the full line if there is none.
AfterColon(line) ==
    IF \E k \in 1..Len(line) : line[k] = ":"
    THEN LET first == CHOOSE k \in 1..Len(line) :
                          line[k] = ":" /\ \A j \in 1..(k - 1) : line[j] # ":"
         IN  SubSeq(line, first + 1, Len(line))
    ELSE line

\* The text without the whitespace at its ends.
RECURSIVE Trim(_)
Trim(chars) ==
    IF chars = <<>> THEN chars
    ELSE IF Head(chars) = " " THEN Trim(Tail(chars))
    ELSE IF chars[Len(chars)] = " " THEN Trim(SubSeq(chars, 1, Len(chars) - 1))
    ELSE chars

\* "Question" and "Q".
QuestionPrefixes == { <<"Q","u","e","s","t","i","o","n">>, <<"Q">> }

OptionPrefixes == { <<"A",")">>, <<"B",")">>, <<"C",")">>, <<"D",")">> }

AnswerPrefix == <<"A","n","s","w","e","r",":">>

ExplanationPrefix == <<"E","x","p","l","a","n","a","t","i","o","n",":">>

AnswerLetters == {"A", "B", "C", "D"}

\* "Not specified", "Answer format error", "No explanation provided".
NotSpecified == <<"N","o","t"," ","s","p","e","c","i","f","i","e","d">>

AnswerFormatError ==
    <<"A","n","s","w","e","r"," ","f","o","r","m","a","t"," ","e","r","r","o","r">>

NoExplanationProvided ==
    <<"N","o"," ","e","x","p","l","a","n","a","t","i","o","n"," ">>
        \o <<"p","r","o","v","i","d","e","d">>

\* "Option A" to "Option D".
PlaceholderOptions ==
    << <<"O","p","t","i","o","n"," ","A">>,
       <<"O","p","t","i","o","n"," ","B">>,
       <<"O","p","t","i","o","n"," ","C">>,
       <<"O","p","t","i","o","n"," ","D">> >>

\* A record that a Question line opens.
OpenRecord(question) ==
    [question |-> question, options |-> <<>>, answer |-> <<>>,
     full_answer |-> <<>>, explanation |-> <<>>]

\* An "Answer:" line: letter and remainder when the text is a letter A-D,
\* one of ". )" and the rest; else its first character and the whole text.
WithAnswer(record, line) ==
    LET text == Trim(AfterColon(line))
    IN  IF Len(text) >= 2 /\ text[1] \in AnswerLetters
           /\ text[2] \in {".", ")", " "}
        THEN [record EXCEPT !.answer = <<text[1]>>,
                            !.full_answer = SubSeq(text, 3, Len(text))]
        ELSE [record EXCEPT !.answer = SubSeq(text, 1, 1),
                            !.full_answer = text]

\* The scan of one line: p is the parser's state, the open record if any
\* and the output list.
ScanLine(p, line) ==
    IF \E prefix \in QuestionPrefixes : StartsWith(line, prefix)
    THEN [open |-> TRUE, current |-> OpenRecord(AfterColon(line)),
          output |-> IF p.open THEN Append(p.output, p.current) ELSE p.output]
    ELSE IF ~p.open THEN p
    ELSE IF \E prefix \in OptionPrefixes : StartsWith(line, prefix)
    THEN [p EXCEPT !.current.options = Append(@, SubSeq(line, 3, Len(line)))]
    ELSE IF StartsWith(line, AnswerPrefix)
    THEN [p EXCEPT !.current = WithAnswer(@, line)]
    ELSE IF StartsWith(line, ExplanationPrefix)
    THEN [p EXCEPT !.current.explanation = AfterColon(line)]
    ELSE p

\* The repair pass on one record.
Repair(record) ==
    LET answered ==
            IF record.answer = <<>> \/ record.answer[1] \notin AnswerLetters
            THEN [record EXCEPT !.answer = NotSpecified,
                                !.full_answer = AnswerFormatError]
            ELSE record
        explained ==
            IF answered.explanation = <<>>
            THEN [answered EXCEPT !.explanation = NoExplanationProvided]
            ELSE answered
    IN  IF Len(explained.options) # Len(PlaceholderOptions)
        THEN [explained EXCEPT !.options = PlaceholderOptions]
        ELSE explained

\* A variant that leaves the open record out at the end of input, which
\* C15 tells apart.
EndOfInputUnflushed(p) ==
    [k \in 1..Len(p.output) |-> Repair(p.output[k])]

\* The end of input: the open record is flushed, every record repaired.
EndOfInput(p) ==
    LET flushed == IF p.open THEN Append(p.output, p.current) ELSE p.output
    IN  [k \in 1..Len(flushed) |-> Repair(flushed[k])]

\* Well-formed blocks: a Question line, the lines A) to D), an Answer:
\* line and an Explanation: line.  The Question lines are "Question 1: a?",
\* "Q2: b?" and "Question c"; the Answer: lines "Answer: B) x" and
\* "Answer: none".
QuestionLines ==
    { <<"Q","u","e","s","t","i","o","n"," ","1",":"," ","a","?">>,
      <<"Q","2",":"," ","b","?">>,
      <<"Q","u","e","s","t","i","o","n"," ","c">> }

AnswerLines ==
    { <<"A","n","s","w","e","r",":"," ","B",")"," ","x">>,
      <<"A","n","s","w","e","r",":"," ","n","o","n","e">> }

Block(question, answer) ==
    << question, <<"A",")"," ","w">>, <<"B",")"," ","x">>,
       <<"C",")"," ","y">>, <<"D",")"," ","z">>, answer,
       <<"E","x","p","l","a","n","a","t","i","o","n",":"," ","e">> >>

Blocks == { Block(question, answer) :
              question \in QuestionLines, answer \in AnswerLines }

\* Blocks in one input.
MaxBlocks == 2

RECURSIVE Concat(_)
Concat(blocks) ==
    IF blocks = <<>> THEN <<>> ELSE Head(blocks) \o Concat(Tail(blocks))

\* A run of the parser on the lines of n well-formed blocks.
ParserInit ==
    /\ ServerInit
    /\ service = {}
    /\ \E n \in 0..MaxBlocks : \E blocks \in [1..n -> Blocks] :
         run = [fn |-> "parse", blocks |-> n, lines |-> Concat(blocks),
                scanned |-> 0, open |-> FALSE, current |-> OpenRecord(<<>>),
                output |-> <<>>, returned |-> FALSE]

\* The next line is scanned.
Scan ==
    /\ run.fn = "parse" /\ ~run.returned
    /\ run.scanned < Len(run.lines)
    /\ LET p == ScanLine([open |-> run.open, current |-> run.current,
                          output |-> run.output],
                         run.lines[run.scanned + 1])
       IN  run' = [run EXCEPT !.scanned = @ + 1, !.open = p.open,
                              !.current = p.current, !.output = p.output]
    /\ UNCHANGED <<question_cache, used_questions, current_topic, thread,
                   nreq, running, switches, delivered, service>>

\* The end of input is reached.
Finish ==
    /\ run.fn = "parse" /\ ~run.returned
    /\ run.scanned = Len(run.lines)
    /\ run' = [run EXCEPT !.returned = TRUE, !.open = FALSE,
                          !.output = EndOfInput([open |-> run.open,
                                                 current |-> run.current,
                                                 output |-> run.output])]
    /\ UNCHANGED <<question_cache, used_questions, current_topic, thread,
                   nreq, running, switches, delivered, service>>

ParserNext == Scan \/ Finish

ParserSpec == ParserInit /\ [][ParserNext]_vars

(***************************************************************************)
(* Properties.                                                             *)
(***************************************************************************)
\* Thread t made the step.
Moved(t) ==
    \/ thread'[t].pc # thread[t].pc
    \/ thread'[t].todo # thread[t].todo
    \/ thread'[t].processed # thread[t].processed

\* Handler i sends its response in the step.
Responds(i) == thread[i].pc # "done" /\ thread'[i].pc = "done"

\* Request i was received and not refused with 400.
Accepted(i) == thread[i].pc # "idle" /\ thread[i].status # 400

\* Every question held anywhere: in the cache, in a list a thread is
\* building or serving, in a response.
Held ==
    Range(question_cache)
        \cup UNION { Range(thread[t].processed) : t \in Threads }
        \cup UNION { Range(thread[i].questions) : i \in Handlers }

Distinct(options) ==
    \A j, k \in 1..Len(options) : j # k => options[j] # options[k]

\* C1: a request whose topic differs from current_topic has the topic
\* adopted before its response is chosen, also when the cache holds 5 or
\* more items and current_index % 5 is not 2.  Stated for that case: a
\* request for which no task was spawned is answered 200 only while
\* current_topic is its topic.
C1_TopicAdoptedBeforeResponse ==
    [][\A i \in Handlers :
          (Responds(i) /\ thread'[i].status = 200
              /\ thread[Task(i)].pc = "idle")
          => current_topic = thread[i].topic]_vars

\* C2: while a topic remains active no question text is returned twice:
\* a 200 response sent with no statement of a topic switch since the
\* handler passed line 199 repeats no text, neither within itself nor from
\* the responses sent since the last such statement.
C2_NoTextReturnedTwice ==
    [][\A i \in Handlers :
          (Responds(i) /\ thread'[i].status = 200
              /\ ~thread'[i].topic_switched)
          => /\ Texts(thread'[i].questions) \cap delivered = {}
             /\ \A j, k \in 1..Len(thread'[i].questions) :
                   j # k => thread'[i].questions[j].question
                              # thread'[i].questions[k].question]_vars

\* C3: a request on the cache branch answers with exactly the 5 questions
\* at the front of the cache, in order, and removes exactly those, the
\* rest keeping their order.
C3_ServesFrontFive ==
    [][\A i \in Handlers :
          (thread[i].pc = "del" /\ Responds(i))
          => /\ Len(thread'[i].questions) = 5
             /\ thread'[i].questions = SubSeq(question_cache, 1, 5)
             /\ question_cache'
                  = SubSeq(question_cache, 6, Len(question_cache))]_vars

\* C4: a request spawns a task if and only if it is valid and
\* current_index % 5 = 2 or the cache holds fewer than 5 items when it is
\* received; the task spawned is the request's one task, and no other step
\* starts a task.
C4_SpawnsExactlyWhenDue ==
    [][/\ \A i \in Handlers :
            (thread[i].pc = "idle" /\ thread'[i].pc # "idle")
            => /\ thread'[Task(i)].pc # "idle"
                    <=> /\ thread'[i].status # 400
                        /\ \/ IntLiterals[IndexTextOf(thread'[i].args)] % 5 = 2
                           \/ Len(question_cache) < 5
               /\ \A u \in Tasks \ {Task(i)} : thread'[u] = thread[u]
       /\ \A i \in Handlers :
            (thread[Task(i)].pc = "idle" /\ thread'[Task(i)].pc # "idle")
            => thread[i].pc = "idle" /\ thread'[i].pc # "idle"]_vars

\* C4 witness: one accepted request has spawned its task, another none.
C4_Witness ==
    \E i, j \in Handlers :
        /\ Accepted(i) /\ thread[Task(i)].pc # "idle"
        /\ Accepted(j) /\ thread[Task(j)].pc = "idle"

\* C5: a request that finds fewer than 5 cached items at line 199 generates
\* inline, and no step of the handler on that path changes question_cache,
\* whether generation succeeds or fails.
C5_InlineLeavesCache ==
    [][\A i \in Handlers :
          /\ (thread[i].pc = "check" /\ Moved(i) /\ Len(question_cache) < 5)
             => /\ thread'[i].call # "none"
                /\ thread'[i].pc \in {"loop", "done"}
                /\ question_cache' = question_cache
          /\ (thread[i].pc \in {"loop", "accept"} /\ Moved(i))
             => /\ question_cache' = question_cache
                /\ thread'[i].pc = "done" => thread'[i].result \in {"list", "None"}
       ]_vars

\* C5 witness: an inline generation has returned questions while the cache
\* held some, fewer than 5.
C5_Witness ==
    \E i \in Handlers :
        /\ thread[i].pc = "done" /\ thread[i].result = "list"
        /\ thread[i].questions # <<>>
        /\ Len(question_cache) \in 1..4

\* C6: every question returned by generate_quiz_questions, cached or sent
\* in a response has exactly 4 options, and its answer is one of them.
C6_FourOptionsWithAnswer ==
    \A q \in Held : Len(q.options) = 4 /\ InSeq(q.answer, q.options)

\* C6 witness: a response and the cache hold questions of a completion that
\* also had elements to discard.
C6_Witness ==
    /\ \E i \in Handlers : "q6" \in Texts(thread[i].questions)
    /\ question_cache # <<>>

\* C7: every question cached or returned has 4 pairwise distinct options.
C7_DistinctOptions ==
    \A q \in Held : Len(q.options) = 4 /\ Distinct(q.options)

\* The elements of the completions that lines 113-131 can accept.
Acceptable ==
    { e \in UNION { Range(c.questions) : c \in Completions } :
        ElementOutcome(e, {}) = "accept" }

SameTexts(s, r) ==
    /\ Len(s) = Len(r)
    /\ \A x \in Range(s) \cup Range(r) :
          Cardinality({ k \in 1..Len(s) : s[k] = x })
              = Cardinality({ k \in 1..Len(r) : r[k] = x })

\* C7 as amended: every question cached or returned has 4 options, which
\* are the options of an accepted completion element with its question
\* text, in some order; they are pairwise distinct when the element's are.
C7_OptionsOfTheElement ==
    \A q \in Held :
        /\ Len(q.options) = 4
        /\ \E e \in Acceptable :
              /\ e.question = q.question
              /\ SameTexts(q.options, e.options.items)
              /\ Distinct(e.options.items) => Distinct(q.options)

\* C7 witness: a question whose element gave an option twice is cached.
C7_Witness ==
    \E k \in 1..Len(question_cache) : ~Distinct(question_cache[k].options)

\* C8: an inline generation that fails (result None) is answered with
\* status 500 and an error body, never with 200.
C8_InlineFailureIs500 ==
    \A i \in Handlers :
        thread[i].result = "None"
        => /\ thread[i].pc = "done"
           /\ thread[i].status = 500
           /\ thread[i].error = "Failed to generate questions"
           /\ thread[i].questions = <<>>
           /\ ~thread[i].should_fetch

\* C8 witness: an inline generation has failed after the service answered
\* with questions (used_questions holds a text of that batch).
C8_Witness ==
    \E i \in Handlers :
        /\ thread[i].result = "None" /\ thread[i].call # "none"
        /\ "q7" \in used_questions

C10_EmptyTopicRefused ==
    /\ \A i \in Handlers :
          thread[i].pc # "idle"
          => /\ ("topic" \notin DOMAIN thread[i].args \/ thread[i].args.topic = "")
                => /\ thread[i].status = 400
                   /\ thread[i].error = "Missing topic parameter"
             /\ thread[i].status # 400 => thread[i].topic # ""
    /\ \A u \in Tasks : thread[u].pc # "idle" => thread[u].topic # ""

\* C11: every 200 response carries should_fetch = true and at most 5
\* questions, on the inline path and on the cache path, whatever completion
\* the service returned.
C11_AtMostFiveQuestions ==
    \A i \in Handlers :
        (thread[i].pc = "done" /\ thread[i].status = 200)
        => thread[i].should_fetch /\ Len(thread[i].questions) <= 5

\* The task has chosen its generation call (lines 156-173).
Chosen(u) ==
    thread[u].pc \notin {"idle", "start", "clear_cache", "clear_used", "set_topic"}

\* C12: the inline generation of a request makes a content-grounded call
\* exactly when the task of the same request does, and a topic-grounded
\* call otherwise, as the task then does.
C12_SameFallback ==
    \A i \in Handlers :
        (thread[i].call # "none" /\ Chosen(Task(i)))
        => /\ thread[i].call = "content" <=> thread[Task(i)].call = "content"
           /\ thread[i].call # "content"
                => thread[i].call = "topic" /\ thread[Task(i)].call = "topic"

\* C13: every task makes one generation call: content-grounded when the
\* chapter file of line 156 yields text, topic-grounded in every other
\* case; it never goes without a call.
C13_TaskAlwaysGenerates ==
    \A u \in Tasks :
        Chosen(u)
        => LET file_path ==
                   PreloadPath(thread[u].standard, thread[u].subject,
                               thread[u].topic)
           IN  thread[u].call =
                   IF path_exists(file_path)
                      /\ FileSystem[file_path] \notin {"", Unreadable}
                   THEN "content" ELSE "topic"

\* min(100, relevant_count / (2 * question_count) * 100) in hundredths,
\* times question_count.
ExactScoreTimes(relevant_count, n) ==
    IF 5000 * relevant_count > 10000 * n THEN 10000 * n
    ELSE 5000 * relevant_count

\* C14: calculate_accuracy returns a score in [0, 100], equal to
\* min(100, relevant_count / (2 * question_count) * 100), and 0.0 when the
\* computation fails, as it does on an empty question list.
C14_ExactScore ==
    (run.fn = "calculate_accuracy" /\ run.returned)
    => LET n == Len(run.questions)
       IN  /\ run.result \in 0..10000
           /\ (run.text_content.none \/ n = 0) <=> run.raised
           /\ run.raised => run.result = 0
           /\ ~run.raised
                => run.result * n = ExactScoreTimes(run.relevant_count, n)

\* C14 as amended: the score is that value rounded to 2 decimals: in
\* [0, 100], a whole number of hundredths, at most half a hundredth from
\* min(100, relevant_count / (2 * question_count) * 100); and 0.0 when the
\* computation fails (text_content None, or an empty question list).
C14_RoundedScore ==
    (run.fn = "calculate_accuracy" /\ run.returned)
    => LET n == Len(run.questions)
           exact == ExactScoreTimes(run.relevant_count, n)
       IN  /\ run.result \in 0..10000
           /\ (run.text_content.none \/ n = 0) <=> run.raised
           /\ run.raised => run.result = 0
           /\ ~run.raised
                => /\ 2 * (run.result * n - exact) <= n
                   /\ 2 * (exact - run.result * n) <= n

\* C14 witness: a score that rounding changed (1 relevant word, 3
\* questions: 16.67), below the cap.
C14_Witness ==
    /\ run.fn = "calculate_accuracy" /\ run.returned /\ ~run.raised
    /\ run.relevant_count = 1 /\ Len(run.questions) = 3
    /\ run.result = 1667

\* C15: on the lines of N well-formed blocks the line parser yields N
\* records, each flushed when the Question line of the next block or the
\* end of input is reached: while scanning, the output holds one record
\* for every block whose successor has begun, and one record is open.
C15_OneRecordPerBlock ==
    run.fn = "parse"
    => LET size == Len(Block(<<>>, <<>>))
       IN  IF run.returned
           THEN Len(run.output) = run.blocks /\ ~run.open
           ELSE /\ run.open <=> run.scanned > 0
                /\ Len(run.output) =
                       IF run.scanned = 0 THEN 0
                       ELSE (run.scanned - 1) \div size

\* C15 witness: the parser has returned 2 records for 2 blocks.
C15_Witness ==
    /\ run.fn = "parse" /\ run.returned
    /\ run.blocks = 2 /\ Len(run.output) = 2

\* C16: for an accepted element and any outcome of the shuffle, the stored
\* options are the options received in some order (the same texts, each as
\* often), the answer is the text received, and it is among the stored
\* options.
C16_ShufflePermutes ==
    (run.fn = "shuffle" /\ run.returned)
    => /\ SameTexts(run.question.options, run.q.options.items)
       /\ run.question.answer = run.q.answer
       /\ InSeq(run.question.answer, run.question.options)
       /\ run.question.question = run.q.question

\* C16 witness: a shuffle has moved the answer from its place.
C16_Witness ==
    /\ run.fn = "shuffle" /\ run.returned
    /\ \E k \in 1..4 :
          /\ run.q.options.items[k] = run.q.answer
          /\ run.question.options[k] # run.q.answer

\* An element that no test discards: the four fields, 4 options, the
\* answer verbatim among them.
WellFormed(q) ==
    /\ {"question", "options", "answer", "explanation"} \subseteq DOMAIN q
    /\ q.options.json = "array"
    /\ Len(q.options.items) = 4
    /\ \E k \in 1..4 : q.options.items[k] = q.answer

\* C17: an element discarded for a missing field, an options count other
\* than 4 or an answer not among the options leaves no trace: every
\* question returned or cached was built from a well-formed element, a
\* text enters used_questions only when a well-formed element with that
\* text is accepted, and a well-formed element whose text is not in
\* used_questions is accepted.
C17_DiscardedLeavesNoTrace ==
    /\ [](\A question \in Held :
            \E q \in UNION { Range(c.questions) : c \in service } :
                /\ WellFormed(q)
                /\ q.question = question.question
                /\ q.answer = question.answer)
    /\ [][/\ \A text \in used_questions' \ used_questions :
                \E t \in Threads :
                    /\ thread[t].pc = "accept" /\ Moved(t)
                    /\ WellFormed(Head(thread[t].todo))
                    /\ Head(thread[t].todo).question = text
          /\ \A t \in Threads :
                (/\ thread[t].pc = "loop" /\ Moved(t)
                 /\ WellFormed(Head(thread[t].todo))
                 /\ Head(thread[t].todo).question \notin used_questions)
                => thread'[t].pc = "accept"]_vars

\* C17 witness: after elements with the texts q6 and q7 were discarded,
\* well-formed elements with these texts were accepted: q6 is cached, q7 is
\* in used_questions.
C17_Witness ==
    /\ "q6" \in Texts(question_cache)
    /\ "q7" \in used_questions

\* C18: the cache holds only questions generated for the current topic: a
\* task appends its results only while current_topic is the topic it was
\* started for, and a request is served cached questions only while
\* current_topic is its topic.
C18_CacheOfCurrentTopic ==
    [][/\ \A u \in Tasks :
            (thread[u].pc = "extend" /\ Moved(u))
            => current_topic = thread[u].topic
       /\ \A i \in Handlers :
            (thread[i].pc = "del" /\ Moved(i) /\ thread[i].processed # <<>>)
            => current_topic = thread[i].topic]_vars

\* C19: each cache entry is delivered to at most one response, the read of
\* line 217 and the removal of line 218 acting as one step: no two handlers
\* are between their read and their removal holding a common entry (with
\* no clear of the cache since either read).
C19_EntryServedOnce ==
    \A i, j \in Handlers :
        (/\ i # j
         /\ thread[i].pc = "del" /\ ~thread[i].topic_switched
         /\ thread[j].pc = "del" /\ ~thread[j].topic_switched)
        => Range(thread[i].processed) \cap Range(thread[j].processed) = {}

\* The generation thread t runs ends in the step with return None.
Fails(t) == thread[t].result # "None" /\ thread'[t].result = "None"

\* The texts the batch of thread t has passed to used_questions.add when
\* the step is taken, the one of line 134 in this step included.
Marked(t) ==
    Texts(thread[t].processed)
        \cup (IF thread[t].pc = "accept"
              THEN {Head(thread[t].todo).question} ELSE {})

\* C20: a generation batch that fails, also on a later element of the
\* array, leaves no text of its own in used_questions: after the step in
\* which it returns None, every text it had marked and that is still in
\* used_questions is in the cache, in a response or in the list another
\* thread is building.
C20_FailedBatchMarksNothing ==
    [][\A t \in Threads :
         Fails(t) =>
           \A x \in Marked(t) \cap used_questions' :
              \/ x \in Texts(question_cache')
              \/ \E i \in Handlers : x \in Texts(thread'[i].questions)
              \/ \E u \in Threads \ {t} : x \in Texts(thread'[u].processed)]_vars

=============================================================================
